---- MODULE Spec2Model ----
(***************************************************************************)
(* Model of cascade_sg_first_contextGAT_Decoder (src/models.py): the three *)
(* decode paths _forward_with_teacher_forcing, _forward_no_teacher_force   *)
(* and _schedule_sampleing, each as enter / per-timestep step / return.    *)
(*                                                                         *)
(* Tensors are modelled by their data flow.  A batch tensor is a sequence  *)
(* indexed by row 1..batch_size (row i here is row i-1 of the code), a     *)
(* caption is a function of the 0-based position, a timestep is 0-based.   *)
(* Feature vectors, hidden states and embeddings are numbers modulo 7 and  *)
(* every layer with learned weights is a fixed function of its inputs that *)
(* depends on each of them (the weights are fixed during a forward call).  *)
(***************************************************************************)
EXTENDS Integers, Sequences, FiniteSets, TLC

\* ---------------------------------------------------------------- bounds
MaxBatch == 2      \* largest batch size explored
MaxCapLen == 3     \* largest caption length (with <start> and <end>)

\* ------------------------------------------------------------ vocabulary
\* create_input_files: words are 1..n, then <unk>, <start>, <end>; <pad> = 0
word_map == [pad |-> 0, word |-> 1, unk |-> 2, start |-> 3, end |-> 4]
vocab_size == Cardinality({word_map[k] : k \in DOMAIN word_map})
Vocab == 0 .. vocab_size - 1
CaptionWords == {word_map.word, word_map.unk}

Methods == {"teacher_forcing", "no_teacher_force", "schedule_sampleing"}

VARIABLES
    method,            \* which decode path the caller runs
    training,          \* self.training
    image_features_in, \* caller's image_features, one entry per sample
    object_features_in,\* caller's scene graph inputs (object/relation features, masks, pair ids)
    encoded_captions_in, \* caller's encoded_captions
    caption_lengths_in,  \* caller's caption_lengths
    seed,              \* state of the random generator when the call starts
    pc,                \* "call", "loop" or "returned"
    frame,             \* local variables of the running decode path
    ret                \* <<>> until the call returns, then <<returned tuple>>

vars == <<method, training, image_features_in, object_features_in,
          encoded_captions_in, caption_lengths_in, seed, pc, frame, ret>>

inputs == <<method, training, image_features_in, object_features_in,
            encoded_captions_in, caption_lengths_in, seed>>

\* the arguments of a call, as one record
Args ==
    [image_features |-> image_features_in, object_features |-> object_features_in,
     encoded_captions |-> encoded_captions_in, caption_lengths |-> caption_lengths_in,
     training |-> training, seed |-> seed]

\* --------------------------------------------------------------- helpers
Max(S) == CHOOSE m \in S : \A x \in S : x <= m

Range(f) == {f[x] : x \in DOMAIN f}

\* x[idx] for a batch tensor x and an index tensor idx
Gather(x, idx) == [i \in 1 .. Len(idx) |-> x[idx[i]]]

Permutations_of(b) == {p \in [1 .. b -> 1 .. b] : \A i, j \in 1 .. b : p[i] = p[j] => i = j}

\* lengths.sort(dim=0, descending=True): the sort is not stable, so every
\* permutation that orders the lengths non-increasingly is a possible result
SortIndAscending(lengths) ==
    {p \in Permutations_of(Len(lengths)) :
        \A i \in 1 .. Len(lengths) - 1 : lengths[p[i]] <= lengths[p[i + 1]]}

SortInd(lengths) ==
    {p \in Permutations_of(Len(lengths)) :
        \A i \in 1 .. Len(lengths) - 1 : lengths[p[i]] >= lengths[p[i + 1]]}

\* ------------------------------------------------------- network layers
\* self.embedding: a lookup table, one vector per token
embedding(tok) == (2 * tok + 1) % 7

\* nn.Dropout: identity in evaluation mode (noise 0); in training mode an
\* element is zeroed (noise 1) or kept and rescaled by 1/(1-p) (noise 2)
dropout(x, noise) == IF noise = 0 THEN x ELSE IF noise = 1 THEN 0 ELSE (2 * x) % 7

\* the draw of the generator seen by the dropout layers of one timestep
Noise(train, r) == IF train THEN 1 + (r % 2) ELSE 0

NextRng(train, r) == IF train THEN (r + 1) % 3 ELSE r

\* image_features.mean(1)
image_mean(img) == (3 * img + 1) % 7

\* cat([object_features, relation_features]).sum(1) / cat([masks]).sum(1)
graph_mean(obj) == (5 * obj + 2) % 7

\* nn.LSTMCell top_down_attention on cat([h2, image mean, graph mean, embedding])
top_down_attention(h2, im, gm, emb, h1, c1) ==
    LET c == (2 * c1 + h2 + 2 * im + 3 * gm + emb + h1 + 1) % 7
    IN  [h |-> (3 * c + emb + h2 + 2) % 7, c |-> c]

\* context_gat on the sample's graph, the reconcile step and cascade1_attention
graph_weighted(g, obj, h1, noise) == (2 * g + obj + 3 * h1 + dropout(1, noise)) % 7

\* cascade2_attention over the region features, query cat([h1, graph_weighted_enc])
img_weighted(img, h1, gwe, noise) == (img + 2 * h1 + gwe + dropout(2, noise) + 3) % 7

\* nn.LSTMCell language_model on cat([graph_weighted_enc, img_weighted_enc, h1])
language_model(gwe, iwe, h1, h2, c2) ==
    LET c == (3 * c2 + gwe + 2 * iwe + h1 + h2 + 2) % 7
    IN  [h |-> (2 * c + gwe + h1 + 1) % 7, c |-> c]

\* self.fc: main head, logits over the vocabulary
fc(h) == [v \in Vocab |-> (v * h + 3 * v * v + v + 5 * (v % 2)) % 7]

\* self.fc1: auxiliary head
fc1(h) == [v \in Vocab |-> ((2 * v + 1) * h + v) % 7]

\* torch.zeros(vocab_size)
ZeroLogits == [v \in Vocab |-> 0]

\* preds.max(1)[1]: index of the first maximal value
ArgMax(logits) ==
    CHOOSE v \in Vocab : /\ \A w \in Vocab : logits[w] <= logits[v]
                         /\ \A w \in Vocab : w < v => logits[w] < logits[v]

\* ------------------------------------------------------ the decode loop
\* decode_lengths = (caption_lengths - 1).tolist()
DecodeLengthsWithEnd(caption_lengths) ==
    [i \in 1 .. Len(caption_lengths) |-> caption_lengths[i]]

DecodeLengths(caption_lengths) ==
    [i \in 1 .. Len(caption_lengths) |-> caption_lengths[i] - 1]

\* range(max(decode_lengths)): the number of timesteps of the loop
NumStepsOneMore(decode_lengths) == Max(Range(decode_lengths)) + 1

NumSteps(decode_lengths) == Max(Range(decode_lengths))

\* batch_size_t = sum([l > t for l in decode_lengths])
BatchSizeTInclusive(decode_lengths, t) ==
    Cardinality({i \in 1 .. Len(decode_lengths) : decode_lengths[i] >= t})

BatchSizeT(decode_lengths, t) ==
    Cardinality({i \in 1 .. Len(decode_lengths) : decode_lengths[i] > t})

\* create_batched_graphs_augmented: one graph per sample, built from the
\* sample's object/relation features, masks and pair ids
create_batched_graphs(object_features) ==
    [i \in 1 .. Len(object_features) |-> (4 * object_features[i] + 3) % 7]

\* torch.zeros(batch_size, max(decode_lengths), vocab_size)
ZeroPredictions(batch_size, decode_lengths) ==
    [i \in 1 .. batch_size |-> [t \in 0 .. NumSteps(decode_lengths) - 1 |-> ZeroLogits]]

\* a state that is not reset: every row starts from a non-zero value
init_hidden_state_stale(batch_size) == [i \in 1 .. batch_size |-> 1]

\* init_hidden_state: torch.zeros(batch_size, decoder_dim)
init_hidden_state(batch_size) == [i \in 1 .. batch_size |-> 0]

\* self.embedding(encoded_captions): one embedding per caption position
EmbedCaptions(encoded_captions) ==
    [i \in 1 .. Len(encoded_captions) |->
        [pos \in DOMAIN encoded_captions[i] |-> embedding(encoded_captions[i][pos])]]

\* The statements the three decode paths share before their loops: the means,
\* the sort of the batch by decreasing caption length, the graphs, the zeroed
\* recurrent states, the decode lengths and the zeroed output buffers.  The
\* last five fields record what the loop did: the embedding fed to each row
\* at each timestep, the cells of the two output buffers written and at which
\* timestep, the batch_size_t of each timestep and the timesteps executed.
SortBatch(a, sort_ind) ==
    LET batch_size == Len(a.image_features)
        decode_lengths == DecodeLengths(Gather(a.caption_lengths, sort_ind))
    IN  [sort_ind |-> sort_ind,
         caption_lengths |-> Gather(a.caption_lengths, sort_ind),
         image_features |-> Gather(a.image_features, sort_ind),
         object_features |-> Gather(a.object_features, sort_ind),
         image_features_mean |->
            Gather([s \in 1 .. batch_size |-> image_mean(a.image_features[s])], sort_ind),
         graph_features_mean |->
            Gather([s \in 1 .. batch_size |-> graph_mean(a.object_features[s])], sort_ind),
         g |-> create_batched_graphs(Gather(a.object_features, sort_ind)),
         h1 |-> init_hidden_state(batch_size), c1 |-> init_hidden_state(batch_size),
         h2 |-> init_hidden_state(batch_size), c2 |-> init_hidden_state(batch_size),
         decode_lengths |-> decode_lengths,
         predictions |-> ZeroPredictions(batch_size, decode_lengths),
         predictions1 |-> ZeroPredictions(batch_size, decode_lengths),
         t |-> 0,
         rng |-> a.seed,
         fed |-> [i \in 1 .. batch_size |-> <<>>],
         written |-> <<>>,
         written1 |-> <<>>,
         batch_sizes |-> <<>>,
         steps |-> <<>>]

\* encoded_captions[sort_ind] of the teacher-forced path
SortCaptionsMissing(encoded_captions, sort_ind) == encoded_captions

SortCaptions(encoded_captions, sort_ind) == Gather(encoded_captions, sort_ind)

\* The loop body for row i, fed the embedding xi: the top-down cell, ContextGAT
\* with the two attentions, the language cell and the two heads.
RowStep(fr, xi, i, noise) ==
    LET td == top_down_attention(fr.h2[i], fr.image_features_mean[i],
                                 fr.graph_features_mean[i], xi, fr.h1[i], fr.c1[i])
    IN  LET gwe == graph_weighted(fr.g[i], fr.object_features[i], td.h, noise)
        IN  LET iwe == img_weighted(fr.image_features[i], td.h, gwe, noise)
            IN  LET lm == language_model(gwe, iwe, td.h, fr.h2[i], fr.c2[i])
                IN  [h1 |-> td.h, c1 |-> td.c, h2 |-> lm.h, c2 |-> lm.c,
                     preds1 |-> fc1(dropout(td.h, noise)),
                     preds |-> fc(dropout(lm.h, noise))]

\* One timestep of the loop on the active prefix, given the embedding x[i]
\* fed to row i: the recurrent states shrink to batch_size_t rows and column
\* t of both buffers is written for the active rows.
CascadeStep(fr, x, train) ==
    LET t == fr.t
        batch_size_t == BatchSizeT(fr.decode_lengths, t)
        active == 1 .. batch_size_t
        Row(i) == RowStep(fr, x[i], i, Noise(train, fr.rng))
    IN  [fr EXCEPT
            !.h1 = [i \in active |-> Row(i).h1],
            !.c1 = [i \in active |-> Row(i).c1],
            !.h2 = [i \in active |-> Row(i).h2],
            !.c2 = [i \in active |-> Row(i).c2],
            !.predictions = [i \in DOMAIN @ |->
                IF i \in active THEN [c \in DOMAIN @[i] |-> IF c = t THEN Row(i).preds ELSE @[i][c]]
                ELSE @[i]],
            !.predictions1 = [i \in DOMAIN @ |->
                IF i \in active THEN [c \in DOMAIN @[i] |-> IF c = t THEN Row(i).preds1 ELSE @[i][c]]
                ELSE @[i]],
            !.rng = NextRng(train, @),
            !.fed = [i \in DOMAIN @ |-> IF i \in active THEN Append(@[i], x[i]) ELSE @[i]],
            !.written = @ \o [i \in active |-> [row |-> i, col |-> t, at |-> t]],
            !.written1 = @ \o [i \in active |-> [row |-> i, col |-> t, at |-> t]],
            !.batch_sizes = Append(@, batch_size_t),
            !.steps = Append(@, t),
            !.t = t + 1]

\* ------------------------------------------- _forward_with_teacher_forcing
teacher_forcing_enter(a, sort_ind) ==
    LET encoded_captions == SortCaptions(a.encoded_captions, sort_ind)
    IN  SortBatch(a, sort_ind) @@
        [encoded_captions |-> encoded_captions,
         embeddings |-> EmbedCaptions(encoded_captions)]

\* embeddings[:batch_size_t, t, :]
EmbeddingsAtNext(embeddings, t) == [i \in 1 .. Len(embeddings) |-> embeddings[i][t + 1]]

EmbeddingsAt(embeddings, t) == [i \in 1 .. Len(embeddings) |-> embeddings[i][t]]

teacher_forcing_step(fr, train) ==
    CascadeStep(fr, EmbeddingsAt(fr.embeddings, fr.t), train)

\* ----------------------------------------------- _forward_no_teacher_force
\* the function never indexes encoded_captions by sort_ind
no_teacher_force_enter(a, sort_ind) ==
    SortBatch(a, sort_ind) @@
        [encoded_captions |-> a.encoded_captions,
         embeddings |-> [i \in 1 .. Len(a.image_features) |-> embedding(word_map.start)]]

\* self.embedding(preds.max(1)[1]) on the rows written at timestep t
GreedyEmbeddingsAux(predictions, predictions1, batch_size_t, t) ==
    [i \in 1 .. batch_size_t |-> embedding(ArgMax(predictions1[i][t]))]

GreedyEmbeddings(predictions, predictions1, batch_size_t, t) ==
    [i \in 1 .. batch_size_t |-> embedding(ArgMax(predictions[i][t]))]

no_teacher_force_step(fr, train) ==
    LET stepped == CascadeStep(fr, fr.embeddings, train)
    IN  [stepped EXCEPT
            !.embeddings = GreedyEmbeddings(stepped.predictions, stepped.predictions1,
                                            BatchSizeT(fr.decode_lengths, fr.t), fr.t)]

\* ------------------------------------------------------ _schedule_sampleing
\* the function never indexes encoded_captions by sort_ind either;
\* sampled_teacher_force is unbound until the end of the first timestep
schedule_sampleing_enter(a, sort_ind) ==
    SortBatch(a, sort_ind) @@
        [encoded_captions |-> a.encoded_captions,
         teacher_force_embeddings |-> EmbedCaptions(a.encoded_captions),
         embeddings |-> EmbedCaptions(a.encoded_captions),
         sampled_teacher_force |-> "unbound",
         sampled |-> FALSE]

\* "if 1:" at the end of the loop body
sampling_condition == TRUE

schedule_sampleing_step(fr, train) ==
    LET x == IF fr.t = 0 \/ fr.sampled_teacher_force = "True"
             THEN EmbeddingsAt(fr.embeddings, fr.t)
             ELSE fr.embeddings
        stepped == CascadeStep(fr, x, train)
    IN  IF sampling_condition
        THEN [stepped EXCEPT !.embeddings = fr.teacher_force_embeddings,
                             !.sampled_teacher_force = "True"]
        ELSE [stepped EXCEPT
                !.embeddings = GreedyEmbeddings(stepped.predictions, stepped.predictions1,
                                                BatchSizeT(fr.decode_lengths, fr.t), fr.t),
                !.sampled_teacher_force = "False",
                !.sampled = TRUE]

\* return predictions, predictions1, encoded_captions, decode_lengths, sort_ind
Returned(fr) ==
    [predictions |-> fr.predictions, predictions1 |-> fr.predictions1,
     encoded_captions |-> fr.encoded_captions, decode_lengths |-> fr.decode_lengths,
     sort_ind |-> fr.sort_ind]

\* a whole call of one decode path as a function of its arguments and of the
\* permutation the sort returned: enter, then the loop to its end
Enter(m, a, sort_ind) ==
    CASE m = "teacher_forcing" -> teacher_forcing_enter(a, sort_ind)
      [] m = "no_teacher_force" -> no_teacher_force_enter(a, sort_ind)
      [] m = "schedule_sampleing" -> schedule_sampleing_enter(a, sort_ind)

Step(m, fr, train) ==
    CASE m = "teacher_forcing" -> teacher_forcing_step(fr, train)
      [] m = "no_teacher_force" -> no_teacher_force_step(fr, train)
      [] m = "schedule_sampleing" -> schedule_sampleing_step(fr, train)

RECURSIVE Loop(_, _, _)
Loop(m, fr, train) ==
    IF fr.t < NumSteps(fr.decode_lengths) THEN Loop(m, Step(m, fr, train), train) ELSE fr

Run(m, a, sort_ind) == Loop(m, Enter(m, a, sort_ind), a.training)

\* the first n timesteps of a call
RECURSIVE LoopUntil(_, _, _, _)
LoopUntil(m, fr, train, n) ==
    IF fr.t < n THEN LoopUntil(m, Step(m, fr, train), train, n) ELSE fr

\* ---------------------------------------------------------------- inputs
Batches == 1 .. MaxBatch

\* an encoded caption of length len: <start>, len - 2 words, <end>, then <pad>
Captions(len) ==
    {c \in [0 .. MaxCapLen - 1 -> Vocab] :
        /\ c[0] = word_map.start
        /\ c[len - 1] = word_map.end
        /\ \A pos \in 1 .. len - 2 : c[pos] \in CaptionWords
        /\ \A pos \in len .. MaxCapLen - 1 : c[pos] = word_map.pad}

CaptionLengths == 2 .. MaxCapLen

AllCaptions == UNION {Captions(len) : len \in CaptionLengths}

\* c_len = len(c) + 2: the position after <end>
CaptionLength(c) == 1 + CHOOSE pos \in DOMAIN c : c[pos] = word_map.end

NoFrame == <<>>

Init ==
    /\ method \in Methods
    /\ training \in BOOLEAN
    /\ seed \in (IF training THEN 0 .. 1 ELSE {0})
    /\ \E b \in Batches :
        /\ encoded_captions_in \in [1 .. b -> AllCaptions]
        /\ caption_lengths_in = [s \in 1 .. b |-> CaptionLength(encoded_captions_in[s])]
        \* every field of sample s carries the sample's own tag
        /\ image_features_in = [s \in 1 .. b |-> s]
        /\ object_features_in = [s \in 1 .. b |-> (2 * s) % 7]
    /\ pc = "call"
    /\ frame = NoFrame
    /\ ret = <<>>

\* ---------------------------------------------------------------- actions
forward_with_teacher_forcing_enter ==
    /\ pc = "call" /\ method = "teacher_forcing"
    /\ \E sort_ind \in SortInd(caption_lengths_in) :
        frame' = teacher_forcing_enter(Args, sort_ind)
    /\ pc' = "loop"
    /\ UNCHANGED <<inputs, ret>>

forward_with_teacher_forcing_step ==
    /\ pc = "loop" /\ method = "teacher_forcing"
    /\ frame.t < NumSteps(frame.decode_lengths)
    /\ frame' = teacher_forcing_step(frame, training)
    /\ UNCHANGED <<inputs, pc, ret>>

forward_no_teacher_force_enter ==
    /\ pc = "call" /\ method = "no_teacher_force"
    /\ \E sort_ind \in SortInd(caption_lengths_in) :
        frame' = no_teacher_force_enter(Args, sort_ind)
    /\ pc' = "loop"
    /\ UNCHANGED <<inputs, ret>>

forward_no_teacher_force_step ==
    /\ pc = "loop" /\ method = "no_teacher_force"
    /\ frame.t < NumSteps(frame.decode_lengths)
    /\ frame' = no_teacher_force_step(frame, training)
    /\ UNCHANGED <<inputs, pc, ret>>

schedule_sampleing_call_enter ==
    /\ pc = "call" /\ method = "schedule_sampleing"
    /\ \E sort_ind \in SortInd(caption_lengths_in) :
        frame' = schedule_sampleing_enter(Args, sort_ind)
    /\ pc' = "loop"
    /\ UNCHANGED <<inputs, ret>>

schedule_sampleing_call_step ==
    /\ pc = "loop" /\ method = "schedule_sampleing"
    /\ frame.t < NumSteps(frame.decode_lengths)
    /\ frame' = schedule_sampleing_step(frame, training)
    /\ UNCHANGED <<inputs, pc, ret>>

\* the loop is over: the path returns its tuple
decode_return ==
    /\ pc = "loop"
    /\ ~(frame.t < NumSteps(frame.decode_lengths))
    /\ ret' = <<Returned(frame)>>
    /\ pc' = "returned"
    /\ UNCHANGED <<inputs, frame>>

Next ==
    \/ forward_with_teacher_forcing_enter
    \/ forward_with_teacher_forcing_step
    \/ forward_no_teacher_force_enter
    \/ forward_no_teacher_force_step
    \/ schedule_sampleing_call_enter
    \/ schedule_sampleing_call_step
    \/ decode_return

Spec == Init /\ [][Next]_vars

\* ------------------------------------------------------------ properties
Running == pc \in {"loop", "returned"}

BatchSizeOf(f) == Len(f.sort_ind)

\* the caller's decode length of original sample s
DecodeLengthIn(s) == caption_lengths_in[s] - 1

MaxDecodeLengthIn == Max({DecodeLengthIn(s) : s \in 1 .. Len(caption_lengths_in)})

Count(log, row, col) ==
    Cardinality({k \in 1 .. Len(log) : log[k].row = row /\ log[k].col = col})

\* C1: in every decode policy the batch_size_t of each executed timestep is
\* the number of samples whose decode length exceeds t, it never increases
\* from one timestep to the next, it is at least 1, and neither output
\* buffer is written at a timestep index t >= max(decode_lengths).
C1_ActiveBatchShrinks ==
    Running =>
        LET bs == frame.batch_sizes
            dl == frame.decode_lengths
        IN  /\ \A k \in 1 .. Len(bs) :
                /\ bs[k] = Cardinality({i \in 1 .. Len(dl) : dl[i] > k - 1})
                /\ bs[k] >= 1
                /\ k > 1 => bs[k] <= bs[k - 1]
            /\ \A k \in 1 .. Len(frame.steps) : frame.steps[k] < Max(Range(dl))
            /\ \A k \in 1 .. Len(frame.written) : frame.written[k].at < Max(Range(dl))
            /\ \A k \in 1 .. Len(frame.written1) : frame.written1[k].at < Max(Range(dl))

C1_Witness ==
    /\ pc = "returned"
    /\ Len(frame.batch_sizes) >= 2
    /\ frame.batch_sizes[2] < frame.batch_sizes[1]
    /\ Len(frame.written) = 3

\* C2: when a forward call returns, every cell [i, t] of both output buffers
\* with t >= decode_lengths[i] still holds its initial zeros and was never
\* written, and every cell with t < decode_lengths[i] was written exactly
\* once, at timestep t.
C2_RowsBeyondLengthStayZero ==
    pc = "returned" =>
        LET r == ret[1]
        IN  \A i \in 1 .. BatchSizeOf(r) : \A t \in DOMAIN r.predictions[i] :
                IF t >= r.decode_lengths[i]
                THEN /\ r.predictions[i][t] = ZeroLogits
                     /\ r.predictions1[i][t] = ZeroLogits
                     /\ Count(frame.written, i, t) = 0
                     /\ Count(frame.written1, i, t) = 0
                ELSE /\ Count(frame.written, i, t) = 1
                     /\ Count(frame.written1, i, t) = 1
                     /\ \A k \in 1 .. Len(frame.written) :
                            frame.written[k].row = i /\ frame.written[k].col = t
                                => frame.written[k].at = t
                     /\ \A k \in 1 .. Len(frame.written1) :
                            frame.written1[k].row = i /\ frame.written1[k].col = t
                                => frame.written1[k].at = t

C2_Witness ==
    /\ pc = "returned"
    /\ \E i \in 1 .. BatchSizeOf(ret[1]) : \E t \in DOMAIN ret[1].predictions[i] :
        /\ t >= ret[1].decode_lengths[i]
        /\ ret[1].predictions[i][t] = ZeroLogits
        /\ ret[1].predictions[1][t] # ZeroLogits
        /\ ret[1].predictions1[1][t] # ZeroLogits

\* C3: once the batch is sorted, at every timestep t the samples still
\* active, those with decode_lengths[i] > t, are exactly the first
\* batch_size_t rows, whatever the caller's caption lengths and their order.
C3_ActiveSetIsPrefix ==
    Running =>
        \A t \in 0 .. Max(Range(frame.decode_lengths)) - 1 :
            {i \in 1 .. BatchSizeOf(frame) : frame.decode_lengths[i] > t}
                = 1 .. BatchSizeT(frame.decode_lengths, t)

C3_Witness ==
    /\ pc = "loop"
    /\ frame.t = 2
    /\ Len(caption_lengths_in) = 2
    /\ caption_lengths_in[1] < caption_lengths_in[2]
    /\ Len(frame.h2) = 1

\* C4: a forward call executes the timesteps 0, 1, ..., max(decode_lengths)-1
\* in this order, one per pass of the loop, and after the last of them the
\* loop is over and the call returns; the time dimension of both returned
\* buffers is max(decode_lengths), and the decode length of a sample is its
\* caption length minus one.
C4_RunsMaxDecodeLengthSteps ==
    /\ pc = "call" => ENABLED Next
    /\ Running =>
        /\ \A k \in 1 .. Len(frame.steps) : frame.steps[k] = k - 1
        /\ frame.t = Len(frame.steps)
        /\ frame.t <= MaxDecodeLengthIn
        /\ \A i \in 1 .. BatchSizeOf(frame) :
            frame.decode_lengths[i] = caption_lengths_in[frame.sort_ind[i]] - 1
    /\ pc = "loop" /\ frame.t = MaxDecodeLengthIn =>
        /\ ENABLED decode_return
        /\ ~ENABLED forward_with_teacher_forcing_step
        /\ ~ENABLED forward_no_teacher_force_step
        /\ ~ENABLED schedule_sampleing_call_step
    /\ pc = "returned" =>
        /\ Len(frame.steps) = MaxDecodeLengthIn
        /\ \A i \in 1 .. BatchSizeOf(ret[1]) :
            /\ DOMAIN ret[1].predictions[i] = 0 .. MaxDecodeLengthIn - 1
            /\ DOMAIN ret[1].predictions1[i] = 0 .. MaxDecodeLengthIn - 1

C4_Witness ==
    /\ pc = "returned"
    /\ frame.steps = <<0, 1>>
    /\ \E i \in 1 .. BatchSizeOf(frame) : frame.decode_lengths[i] = 1

\* the token teacher forcing owes row i at timestep t: position t of the
\* caption of the original sample that the sort put in row i
GroundTruthToken(f, i, t) == encoded_captions_in[f.sort_ind[i]][t]

FedGroundTruth(f) ==
    \A i \in 1 .. BatchSizeOf(f) : \A k \in 1 .. Len(f.fed[i]) :
        f.fed[i][k] = embedding(GroundTruthToken(f, i, k - 1))

\* C5 (as claimed): in every decode policy the captions a call returns are
\* the length-sorted captions, returned_captions[i] = input_captions[sort_ind[i]].
C5_ReturnedCaptionsAreSorted ==
    pc = "returned" =>
        \A i \in 1 .. BatchSizeOf(ret[1]) :
            ret[1].encoded_captions[i] = encoded_captions_in[ret[1].sort_ind[i]]

\* the arguments of a call on the batch that holds original sample s alone
SingleArgs(s) ==
    [image_features |-> <<image_features_in[s]>>,
     object_features |-> <<object_features_in[s]>>,
     encoded_captions |-> <<encoded_captions_in[s]>>,
     caption_lengths |-> <<caption_lengths_in[s]>>,
     training |-> training, seed |-> seed]

\* C6: the sort_ind that forward returns is a permutation of the batch under
\* which the caption lengths are non-increasing, the returned decode length
\* of row i is the caption length of original sample sort_ind[i] minus one,
\* and row i of both returned buffers is the row of original sample
\* sort_ind[i]: without randomness it holds the logits that sample gets when
\* it is decoded alone.
C6_SortIndRestoresOrder ==
    pc = "returned" /\ method \in {"teacher_forcing", "no_teacher_force"} =>
        LET r == ret[1]
            b == Len(caption_lengths_in)
        IN  /\ Len(r.sort_ind) = b
            /\ {r.sort_ind[i] : i \in 1 .. b} = 1 .. b
            /\ \A i \in 1 .. b - 1 :
                caption_lengths_in[r.sort_ind[i]] >= caption_lengths_in[r.sort_ind[i + 1]]
            /\ \A i \in 1 .. b :
                r.decode_lengths[i] = caption_lengths_in[r.sort_ind[i]] - 1
            /\ ~training =>
                \A i \in 1 .. b :
                    LET alone == Run(method, SingleArgs(r.sort_ind[i]), <<1>>)
                    IN  \A t \in 0 .. r.decode_lengths[i] - 1 :
                            /\ r.predictions[i][t] = alone.predictions[1][t]
                            /\ r.predictions1[i][t] = alone.predictions1[1][t]

C6_Witness ==
    /\ pc = "returned" /\ method = "teacher_forcing" /\ ~training
    /\ ret[1].sort_ind = <<2, 1>>
    /\ ret[1].decode_lengths = <<2, 1>>
    /\ encoded_captions_in[1] # encoded_captions_in[2]

\* C7: in the teacher-forced path the input fed to row i at timestep t is
\* the embedding of the ground-truth token at position t of the caption of
\* the sample in row i, at every timestep and whatever logits were produced.
C7_TeacherForcingFeedsGroundTruth ==
    Running /\ method = "teacher_forcing" => FedGroundTruth(frame)

C7_Witness ==
    /\ pc = "returned" /\ method = "teacher_forcing"
    /\ frame.sort_ind = <<2, 1>>
    /\ Len(frame.fed[1]) = 2
    /\ frame.fed[1][2] # embedding(ArgMax(frame.predictions[1][0]))

\* captions of the given lengths that carry <unk> at every word position
BlankCaptions(lengths) ==
    [s \in 1 .. Len(lengths) |->
        [pos \in 0 .. MaxCapLen - 1 |->
            IF pos = 0 THEN word_map.start
            ELSE IF pos < lengths[s] - 1 THEN word_map.unk
            ELSE IF pos = lengths[s] - 1 THEN word_map.end
            ELSE word_map.pad]]

\* C8: in the free-running path every row is fed <start> at timestep 0 and,
\* at timestep t+1, the highest-scoring token of the main-head logits written
\* for it at timestep t; the logits do not depend on the caption tokens: the
\* call on the same batch with every caption word replaced (same lengths,
\* same other arguments) writes the same logits at every timestep.  Every
\* caption is compared with the blank captions, hence with every other one.
C8_FreeRunningIgnoresCaptions ==
    Running /\ method = "no_teacher_force" =>
        /\ \A i \in 1 .. BatchSizeOf(frame) : \A k \in 1 .. Len(frame.fed[i]) :
            frame.fed[i][k] =
                IF k = 1 THEN embedding(word_map.start)
                ELSE embedding(ArgMax(frame.predictions[i][k - 2]))
        /\ pc = "returned" =>
            LET other == Run("no_teacher_force",
                             [Args EXCEPT !.encoded_captions = BlankCaptions(caption_lengths_in)],
                             frame.sort_ind)
            IN  /\ other.predictions = ret[1].predictions
                /\ other.predictions1 = ret[1].predictions1

C8_Witness ==
    /\ pc = "returned" /\ method = "no_teacher_force"
    /\ encoded_captions_in # BlankCaptions(caption_lengths_in)
    /\ Len(frame.fed[1]) = 2
    /\ frame.fed[1][2] # embedding(encoded_captions_in[frame.sort_ind[1]][1])

\* greedy decoding reproduces the caption: the highest-scoring main-head
\* token of row i at timestep t is the caption token at position t + 1
GreedyReproducesCaption(f) ==
    \A i \in 1 .. BatchSizeOf(f) : \A t \in 0 .. f.decode_lengths[i] - 1 :
        t + 1 < f.decode_lengths[i] =>
            ArgMax(f.predictions[i][t]) = GroundTruthToken(f, i, t + 1)

OtherPolicy(m) == IF m = "teacher_forcing" THEN "no_teacher_force" ELSE "teacher_forcing"

\* C9: without randomness (evaluation mode), when greedy decoding of the
\* batch reproduces every caption token that is fed, the teacher-forced and
\* the free-running path write the same main-head and auxiliary-head logits
\* at every timestep of every sample.
C9_TeacherForcedEqualsFreeRunning ==
    /\ pc = "returned"
    /\ method \in {"teacher_forcing", "no_teacher_force"}
    /\ ~training
    /\ GreedyReproducesCaption(frame)
    => LET other == Run(OtherPolicy(method), Args, frame.sort_ind)
       IN  /\ other.predictions = ret[1].predictions
           /\ other.predictions1 = ret[1].predictions1

C9_Witness ==
    /\ pc = "returned" /\ method = "teacher_forcing" /\ ~training
    /\ Len(caption_lengths_in) = 2
    /\ frame.decode_lengths = <<2, 2>>
    /\ \A i \in 1 .. 2 : \A t \in 0 .. 1 :
        ArgMax(frame.predictions[i][t]) = GroundTruthToken(frame, i, t + 1)

\* C10 (as claimed): the scheduled-sampling path behaves like teacher
\* forcing: it never takes the model-prediction branch, at every timestep it
\* feeds row i the ground-truth token the teacher-forced path feeds it, and
\* it returns the logits of the teacher-forced path.
C10_ScheduledSamplingIsTeacherForcing ==
    Running /\ method = "schedule_sampleing" =>
        /\ ~frame.sampled
        /\ FedGroundTruth(frame)
        /\ pc = "returned" =>
            LET forced == Run("teacher_forcing", Args, frame.sort_ind)
            IN  /\ forced.predictions = ret[1].predictions
                /\ forced.predictions1 = ret[1].predictions1

\* =========================================================================
\* The scene graphs of a forward call: the ContextGAT the decoder owns, the
\* graphs create_batched_graphs_augmented builds from the object / relation
\* tensors, and the ContextGAT pass of a timestep with the reconciliation of
\* its padded output with the object tensor.
\*
\* A slot tensor of one sample is a function of the 0-based slot, a graph is
\* [F_n, edges, nid, eid]: F_n and edges are functions of the 0-based node /
\* edge id, an edge is [src, dst, F_e]; nid / eid are dgl.NID / dgl.EID, the
\* id each node / edge had in the graph built from the tensors.  A feature
\* vector is one number; features are multiples of FeatureUnit so that the
\* means the code takes are exact, and NaN is the mean of an empty tensor.
\* =========================================================================
MaxObjects == 3     \* slots of the object tensor (100 in the data set)
MaxRelations == 2   \* slots of the relation tensor

FeatureUnit == 3 * 4

NaN == 0 - 1

Len0(x) == Cardinality(DOMAIN x)

\* number of true entries of mask before slot j
Rank(mask, j) == Cardinality({i \in DOMAIN mask : i < j /\ mask[i]})

\* mask.sum()
MaskSum(mask) == Cardinality({i \in DOMAIN mask : mask[i]})

\* x[mask] for a boolean mask: the masked-in entries, in slot order
Select0(x, mask) ==
    [k \in 0 .. MaskSum(mask) - 1 |->
        x[CHOOSE j \in DOMAIN mask : mask[j] /\ Rank(mask, j) = k]]

\* x[mask] = vals
AssignMasked(x, mask, vals) ==
    [j \in DOMAIN x |-> IF mask[j] THEN vals[Rank(mask, j)] ELSE x[j]]

\* torch.cat((x, y), 0)
Cat0(x, y) ==
    [k \in 0 .. Len0(x) + Len0(y) - 1 |->
        IF k < Len0(x) THEN x[k] ELSE y[k - Len0(x)]]

RECURSIVE Sum0(_, _)
Sum0(x, n) == IF n = 0 THEN 0 ELSE x[n - 1] + Sum0(x, n - 1)

\* x.mean(0): NaN for an empty tensor and for one that holds a NaN
MeanAsSum(x) ==
    IF Len0(x) = 0 \/ \E k \in DOMAIN x : x[k] = NaN THEN NaN
    ELSE Sum0(x, Len0(x))

Mean0(x) ==
    IF Len0(x) = 0 \/ \E k \in DOMAIN x : x[k] = NaN THEN NaN
    ELSE Sum0(x, Len0(x)) \div Len0(x)

\* the graph of one sample, as every branch of the builder first makes it:
\* add_nodes(om.sum()), F_n = o[om], add_edges(pairs[rm, 0], pairs[rm, 1]),
\* F_e = r[rm]
SampleGraphAllSlots(o_b, om_b, r_b, rm_b, pairs_b) ==
    LET all == [j \in DOMAIN r_b |-> TRUE]
    IN  [F_n |-> Select0(o_b, om_b),
         edges |-> Select0([j \in DOMAIN r_b |->
                              [src |-> pairs_b[j][1], dst |-> pairs_b[j][2], F_e |-> r_b[j]]],
                           all),
         nid |-> [k \in 0 .. MaskSum(om_b) - 1 |-> k],
         eid |-> [k \in 0 .. MaskSum(all) - 1 |-> k]]

SampleGraph(o_b, om_b, r_b, rm_b, pairs_b) ==
    [F_n |-> Select0(o_b, om_b),
     edges |-> Select0([j \in DOMAIN r_b |->
                          [src |-> pairs_b[j][1], dst |-> pairs_b[j][2], F_e |-> r_b[j]]],
                       rm_b),
     nid |-> [k \in 0 .. MaskSum(om_b) - 1 |-> k],
     eid |-> [k \in 0 .. MaskSum(rm_b) - 1 |-> k]]

num_nodes(graph) == Len0(graph.F_n)

num_edges(graph) == Len0(graph.edges)

\* torch.bernoulli over n entries: every outcome
Bernoulli(n) == [0 .. n - 1 -> BOOLEAN]

\* dgl.edge_subgraph(graph, edge_idx, preserve_nodes=False): the nodes no
\* kept edge touches go too
drop_edge_relabel(graph, masks) ==
    LET kept == Select0(graph.edges, masks)
        touched == [n \in DOMAIN graph.F_n |->
                        \E k \in DOMAIN kept : kept[k].src = n \/ kept[k].dst = n]
    IN  [F_n |-> Select0(graph.F_n, touched),
         edges |-> [k \in DOMAIN kept |->
                        [src |-> Rank(touched, kept[k].src),
                         dst |-> Rank(touched, kept[k].dst),
                         F_e |-> kept[k].F_e]],
         nid |-> Select0(graph.nid, touched),
         eid |-> Select0(graph.eid, masks)]

\* drop_edge: masks is the Bernoulli draw (TRUE keeps the edge);
\* dgl.edge_subgraph(graph, edge_idx, preserve_nodes=True) keeps every node
drop_edge(graph, masks) ==
    [graph EXCEPT !.edges = Select0(graph.edges, masks),
                  !.eid = Select0(graph.eid, masks)]

\* a node drop that keeps every edge whose source survives
drop_node_by_source(graph, masks) ==
    LET keep == [k \in DOMAIN graph.edges |-> masks[graph.edges[k].src]]
        kept == Select0(graph.edges, keep)
    IN  [F_n |-> Select0(graph.F_n, masks),
         edges |-> [k \in DOMAIN kept |->
                        [src |-> Rank(masks, kept[k].src),
                         dst |-> Rank(masks, kept[k].dst),
                         F_e |-> kept[k].F_e]],
         nid |-> Select0(graph.nid, masks),
         eid |-> Select0(graph.eid, keep)]

\* drop_node: masks is the Bernoulli draw (TRUE keeps the node);
\* dgl.node_subgraph(graph, node_idx) is the induced subgraph, its nodes
\* relabelled in order
drop_node(graph, masks) ==
    LET keep == [k \in DOMAIN graph.edges |->
                    masks[graph.edges[k].src] /\ masks[graph.edges[k].dst]]
        kept == Select0(graph.edges, keep)
    IN  [F_n |-> Select0(graph.F_n, masks),
         edges |-> [k \in DOMAIN kept |->
                        [src |-> Rank(masks, kept[k].src),
                         dst |-> Rank(masks, kept[k].dst),
                         F_e |-> kept[k].F_e]],
         nid |-> Select0(graph.nid, masks),
         eid |-> Select0(graph.eid, keep)]

\* drop_feat: x[:, masks.bool()] = 0; a feature vector is one column here
drop_feat(x, masks) == [k \in DOMAIN x |-> IF masks[0] THEN 0 ELSE x[k]]

\* the "add global node" branch for a sample below capacity
AddGlobalNode(o_b, om_b, r_b, rm_b, pairs_b) ==
    LET base == SampleGraph(o_b, om_b, r_b, rm_b, pairs_b)
        n == MaskSum(om_b)
        F_n_org == Select0(o_b, om_b)
        F_n == Cat0(F_n_org, [k \in {0} |-> Mean0(F_n_org)])
        om_new == [om_b EXCEPT ![n] = TRUE]
        global_nodes == n
        global_edge_embedding == Mean0(Select0(r_b, rm_b))
        to_global == [k \in 0 .. n - 1 |->
                        [src |-> k, dst |-> global_nodes, F_e |-> global_edge_embedding]]
        from_global == [k \in 0 .. n - 1 |->
                        [src |-> global_nodes, dst |-> k, F_e |-> global_edge_embedding]]
        edges == Cat0(base.edges, Cat0(to_global, from_global))
    IN  [graph |-> [F_n |-> F_n, edges |-> edges,
                    nid |-> [k \in DOMAIN F_n |-> k],
                    eid |-> [k \in DOMAIN edges |-> k]],
         o |-> AssignMasked(o_b, om_new, F_n),
         om |-> om_new]

\* a sample whose mask is never found full: the global node is always added
AtCapacityNever(om_b) == FALSE

\* om[b].sum() == 100, the width of the object tensor
AtCapacity(om_b) == MaskSum(om_b) = MaxObjects

\* what one pass of the builder's loop over the samples can yield for sample
\* b under a valid augmentation code: [graph, o, om] with o, om the rows the
\* pass leaves in the object tensor and mask (codes 4 and 5 write them in
\* place), one element per outcome of the Bernoulli draws
AugmentSample(code, o_b, om_b, r_b, rm_b, pairs_b) ==
    LET base == SampleGraph(o_b, om_b, r_b, rm_b, pairs_b)
        Same(graph) == [graph |-> graph, o |-> o_b, om |-> om_b]
    IN  CASE code = 0 -> {Same(base)}
          [] code = 1 ->
                {Same(drop_edge(base, em)) : em \in Bernoulli(num_edges(base))}
          [] code = 2 ->
                UNION {LET sg == drop_node(base, nm)
                       IN  {Same(drop_edge(sg, em)) : em \in Bernoulli(num_edges(sg))}
                       : nm \in Bernoulli(num_nodes(base))}
          [] code = 3 ->
                {Same(drop_node(base, nm)) : nm \in Bernoulli(num_nodes(base))}
          [] code = 4 ->
                {LET feat == drop_feat(Select0(o_b, om_b), fm)
                 IN  [graph |-> [base EXCEPT !.F_n = feat],
                      o |-> AssignMasked(o_b, om_b, feat),
                      om |-> om_b]
                 : fm \in Bernoulli(1)}
          [] code = 5 ->
                IF AtCapacity(om_b) THEN {Same(base)}
                ELSE {AddGlobalNode(o_b, om_b, r_b, rm_b, pairs_b)}

\* every way to pick one element of S[b] for each b in 1 .. n
RECURSIVE Choices(_, _)
Choices(S, n) ==
    IF n = 0 THEN {<<>>}
    ELSE {Append(c, x) : c \in Choices(S, n - 1), x \in S[n]}

AugmentationCodes == 0 .. 5

\* a builder without the final else branch: an unknown code builds nothing
\* and returns
create_batched_graphs_unchecked(o, om, r, rm, pairs, augmentation) ==
    IF augmentation \notin AugmentationCodes
    THEN {[raised |-> "none", graphs |-> <<>>, o |-> o, om |-> om]}
    ELSE {[raised |-> "none",
           graphs |-> [b \in 1 .. Len(o) |-> per[b].graph],
           o |-> [b \in 1 .. Len(o) |-> per[b].o],
           om |-> [b \in 1 .. Len(o) |-> per[b].om]]
          : per \in Choices([b \in 1 .. Len(o) |->
                                AugmentSample(augmentation, o[b], om[b], r[b], rm[b], pairs[b])],
                            Len(o))}

\* create_batched_graphs_augmented with beam_size = 1: the set of its
\* outcomes, one per outcome of the Bernoulli draws.  raised is "none" when
\* the call returns (graphs, o, om); when it raises, graphs is the list built
\* so far and o, om are the caller's tensors as the call leaves them.
create_batched_graphs_augmented(o, om, r, rm, pairs, augmentation) ==
    IF augmentation \notin AugmentationCodes
    THEN {[raised |-> "ValueError", graphs |-> <<>>, o |-> o, om |-> om]}
    ELSE {[raised |-> "none",
           graphs |-> [b \in 1 .. Len(o) |-> per[b].graph],
           o |-> [b \in 1 .. Len(o) |-> per[b].o],
           om |-> [b \in 1 .. Len(o) |-> per[b].om]]
          : per \in Choices([b \in 1 .. Len(o) |->
                                AugmentSample(augmentation, o[b], om[b], r[b], rm[b], pairs[b])],
                            Len(o))}

\* create_batched_graphs with beam_size = 1
create_batched_graphs_plain(o, om, r, rm, pairs) ==
    [b \in 1 .. Len(o) |-> SampleGraph(o[b], om[b], r[b], rm[b], pairs[b])]

\* ---------------------------------------------------------------- ContextGAT
\* an assertion that asks for both kinds of information
ContextGAT_init_both(args) ==
    [raised |-> IF args.use_obj_info /\ args.use_rel_info THEN "none" ELSE "AssertionError",
     use_obj_info |-> args.use_obj_info,
     use_rel_info |-> args.use_rel_info,
     k_update_steps |-> args.k_update_steps,
     update_relations |-> args.update_relations,
     relation_score |-> args.use_rel_info \/ args.update_relations,
     linear_phi_edge |-> args.update_relations]

\* ContextGAT.__init__: raised is "AssertionError" when the assert on
\* use_obj_info / use_rel_info fails (assertions enabled, Python's default);
\* the other fields are the attributes set by then and, when nothing is
\* raised, the layers the module owns
ContextGAT_init(args) ==
    [raised |-> IF args.use_obj_info \/ args.use_rel_info THEN "none" ELSE "AssertionError",
     use_obj_info |-> args.use_obj_info,
     use_rel_info |-> args.use_rel_info,
     k_update_steps |-> args.k_update_steps,
     update_relations |-> args.update_relations,
     relation_score |-> args.use_rel_info \/ args.update_relations,
     linear_phi_edge |-> args.update_relations]

\* the feature sum the messages of edges 0 .. k-1 bring to node n
RECURSIVE InSum(_, _, _, _, _)
InSum(F_n_t, F_e_t, edges, n, k) ==
    IF k = 0 THEN 0
    ELSE InSum(F_n_t, F_e_t, edges, n, k - 1)
         + (IF edges[k - 1].dst = n THEN F_n_t[edges[k - 1].src] + F_e_t[k - 1] ELSE 0)

InNaN(F_n_t, F_e_t, edges, n) ==
    \E k \in DOMAIN edges :
        edges[k].dst = n /\ (F_n_t[edges[k].src] = NaN \/ F_e_t[k] = NaN)

InDegree(edges, n) == Cardinality({k \in DOMAIN edges : edges[k].dst = n})

\* relu(linear_phi_node(cat(attention over the mailbox, F_i))): a fixed
\* function of the query and the features, zero for some of them
phi_node(h, in_sum, F_i) == (((h + in_sum + F_i) \div FeatureUnit) % 3) * FeatureUnit

\* relu(linear_phi_edge(cat(attention over the two end nodes, F_e)))
phi_edge(F_src, F_dst, F_e) == (((F_src + 2 * F_dst + F_e) \div FeatureUnit) % 3) * FeatureUnit

\* a round in which a node without incoming edges keeps its feature
UpdateAllKeep(self, h, st, edges) ==
    [F_n_t |-> [n \in DOMAIN st.F_n_t |->
                    IF InDegree(edges, n) = 0 THEN st.F_n_t[n]
                    ELSE IF st.F_n_t[n] = NaN \/ InNaN(st.F_n_t, st.F_e_t, edges, n) THEN NaN
                    ELSE phi_node(h * FeatureUnit,
                                  InSum(st.F_n_t, st.F_e_t, edges, n, Len0(edges)),
                                  st.F_n_t[n])],
     F_e_t |-> IF self.update_relations
               THEN [k \in DOMAIN edges |->
                        IF st.F_e_t[k] = NaN \/ st.F_n_t[edges[k].src] = NaN
                           \/ st.F_n_t[edges[k].dst] = NaN THEN NaN
                        ELSE phi_edge(st.F_n_t[edges[k].src], st.F_n_t[edges[k].dst],
                                      st.F_e_t[k])]
               ELSE st.F_e_t]

\* one round of update_all on one graph of the batch: nodes without
\* incoming edges get no message and their F_i_tplus1 is zero
UpdateAll(self, h, st, edges) ==
    [F_n_t |-> [n \in DOMAIN st.F_n_t |->
                    IF InDegree(edges, n) = 0 THEN 0
                    ELSE IF st.F_n_t[n] = NaN \/ InNaN(st.F_n_t, st.F_e_t, edges, n) THEN NaN
                    ELSE phi_node(h * FeatureUnit,
                                  InSum(st.F_n_t, st.F_e_t, edges, n, Len0(edges)),
                                  st.F_n_t[n])],
     F_e_t |-> IF self.update_relations
               THEN [k \in DOMAIN edges |->
                        IF st.F_e_t[k] = NaN \/ st.F_n_t[edges[k].src] = NaN
                           \/ st.F_n_t[edges[k].dst] = NaN THEN NaN
                        ELSE phi_edge(st.F_n_t[edges[k].src], st.F_n_t[edges[k].dst],
                                      st.F_e_t[k])]
               ELSE st.F_e_t]

\* rounds that all read the features the first round read
RoundsFromStart(self, h, st, edges, k) ==
    IF k = 0 THEN st ELSE UpdateAll(self, h, st, edges)

\* for _ in range(self.k_update_steps): each round works on the F_n_t / F_e_t
\* the round before it assigned
RECURSIVE Rounds(_, _, _, _, _)
Rounds(self, h, st, edges, k) ==
    IF k = 0 THEN st ELSE Rounds(self, h, UpdateAll(self, h, st, edges), edges, k - 1)

\* pad_sequence(io, batch_first=True) and io.sum(dim=-1) != 0
PadSequence(io) ==
    LET width == Max({Len0(io[b]) : b \in 1 .. Len(io)})
    IN  [b \in 1 .. Len(io) |->
            [k \in 0 .. width - 1 |-> IF k < Len0(io[b]) THEN io[b][k] ELSE 0]]

\* ContextGAT.forward on the batched graphs: [raised, io, io_mask, graphs].
\* The reduce function reads the mailbox fields of both kinds of information,
\* so it raises KeyError when one of them was not sent.  graphs is the batched
\* graph the call leaves behind: with edges it carries h_t and the working
\* copies F_n_t / F_e_t next to the untouched F_n / F_e.
ContextGAT_forward(self, input_hidden, graphs) ==
    LET edges_total == Sum0([k \in 0 .. Len(graphs) - 1 |-> num_edges(graphs[k + 1])],
                            Len(graphs))
        rounds == [b \in 1 .. Len(graphs) |->
                    Rounds(self, input_hidden[b],
                           [F_n_t |-> graphs[b].F_n,
                            F_e_t |-> [k \in DOMAIN graphs[b].edges |-> graphs[b].edges[k].F_e]],
                           graphs[b].edges, self.k_update_steps)]
        io == IF edges_total > 0
              THEN PadSequence([b \in 1 .. Len(graphs) |-> rounds[b].F_n_t])
              ELSE PadSequence([b \in 1 .. Len(graphs) |-> graphs[b].F_n])
        after == [b \in 1 .. Len(graphs) |->
                    IF edges_total > 0
                    THEN [F_n |-> graphs[b].F_n, edges |-> graphs[b].edges,
                          nid |-> graphs[b].nid, eid |-> graphs[b].eid,
                          h_t |-> input_hidden[b],
                          F_n_t |-> rounds[b].F_n_t, F_e_t |-> rounds[b].F_e_t]
                    ELSE graphs[b]]
    IN  IF edges_total > 0 /\ self.k_update_steps > 0
           /\ ~(self.use_obj_info /\ self.use_rel_info)
        THEN [raised |-> "KeyError", io |-> <<>>, io_mask |-> <<>>, graphs |-> <<>>]
        ELSE [raised |-> "none", io |-> io,
              io_mask |-> [b \in 1 .. Len(io) |-> [k \in DOMAIN io[b] |-> io[b][k] # 0]],
              graphs |-> after]

\* the copy without the last statement: zero-in-degree slots stay zero
ReconcileNoRestore(of, om, cgat_out, cgat_mask_out) ==
    [raised |-> "none",
     cgat_obj |-> [b \in 1 .. Len(of) |->
                    [j \in DOMAIN of[b] |->
                        IF j \in DOMAIN cgat_out[b] THEN cgat_out[b][j] ELSE 0]],
     cgat_mask |-> [b \in 1 .. Len(of) |->
                    [j \in DOMAIN of[b] |->
                        IF j \in DOMAIN cgat_out[b] THEN cgat_mask_out[b][j] ELSE FALSE]]]

\* cgat_obj / cgat_mask: ContextGAT's padded output copied into tensors of
\* the shape of the object tensor, then the valid slots it did not update
\* filled with their object feature.  A padded output wider than the object
\* tensor does not fit the slice it is assigned to.
Reconcile(of, om, cgat_out, cgat_mask_out) ==
    IF \E b \in 1 .. Len(of) : Len0(cgat_out[b]) > Len0(of[b])
    THEN [raised |-> "RuntimeError", cgat_obj |-> <<>>, cgat_mask |-> <<>>]
    ELSE LET cgat_obj == [b \in 1 .. Len(of) |->
                            [j \in DOMAIN of[b] |->
                                IF j \in DOMAIN cgat_out[b] THEN cgat_out[b][j] ELSE 0]]
             cgat_mask == [b \in 1 .. Len(of) |->
                            [j \in DOMAIN of[b] |->
                                IF j \in DOMAIN cgat_out[b] THEN cgat_mask_out[b][j] ELSE FALSE]]
         IN  [raised |-> "none",
              cgat_obj |-> [b \in 1 .. Len(of) |->
                                [j \in DOMAIN of[b] |->
                                    IF ~cgat_mask[b][j] /\ om[b][j]
                                    THEN of[b][j] ELSE cgat_obj[b][j]]],
              cgat_mask |-> cgat_mask]

\* ------------------------------------------------------ scene graph inputs
ObjectSlots == 0 .. MaxObjects - 1

RelationSlots == 0 .. MaxRelations - 1

\* the feature in object / relation slot j of sample s: non-zero, and
\* different from slot to slot
ObjectFeature(s, j) == FeatureUnit * (s + j)

RelationFeature(s, j) == FeatureUnit * (2 * s + j + 1)

\* the pairs relation slot j may hold in a sample with n objects: a relation
\* between two neighbouring objects, in either direction, or from an object
\* to itself
PairChoices(j, n) ==
    {<<j % n, (j + 1) % n>>, <<(j + 1) % n, j % n>>, <<j % n, j % n>>}

\* the tensors of sample s with n objects: the object slots are filled from
\* slot 0 on, the rest is padding; any relation slot may be masked in, its
\* pair naming two of the n objects
SceneSamples(s, n) ==
    UNION {{[o |-> [j \in ObjectSlots |-> IF j < n THEN ObjectFeature(s, j) ELSE 0],
             om |-> [j \in ObjectSlots |-> j < n],
             r |-> [j \in RelationSlots |-> IF rm[j] THEN RelationFeature(s, j) ELSE 0],
             rm |-> rm,
             pairs |-> pairs]
            : pairs \in {p \in [RelationSlots -> ObjectSlots \X ObjectSlots] :
                            \A j \in RelationSlots :
                                IF rm[j] THEN p[j] \in PairChoices(j, n)
                                ELSE p[j] = <<0, 0>>}}
           : rm \in {m \in [RelationSlots -> BOOLEAN] :
                        n = 0 => \A j \in RelationSlots : ~m[j]}}

AllSceneSamples(s) == UNION {SceneSamples(s, n) : n \in 0 .. MaxObjects}

\* the samples with at most one object and no relation; those that share a
\* batch with an arbitrary sample are among them
SmallSceneSamples(s) ==
    {x \in SceneSamples(s, 0) \cup SceneSamples(s, 1) : \A j \in RelationSlots : ~x.rm[j]}

\* a batch of samples as the five tensors of a call
AsTensors(batch) ==
    [o |-> [b \in 1 .. Len(batch) |-> batch[b].o],
     om |-> [b \in 1 .. Len(batch) |-> batch[b].om],
     r |-> [b \in 1 .. Len(batch) |-> batch[b].r],
     rm |-> [b \in 1 .. Len(batch) |-> batch[b].rm],
     pairs |-> [b \in 1 .. Len(batch) |-> batch[b].pairs]]

SceneBatches ==
    {AsTensors(<<x>>) : x \in AllSceneSamples(1)}
    \cup {AsTensors(<<y, x>>) : y \in SmallSceneSamples(1) \ SceneSamples(1, 0),
                                x \in AllSceneSamples(2)}

\* ---------------------------------------------------------------- Attention
\* float('-inf'), the score masked_fill_ gives a masked-out key
NegInf == 0 - 1

\* full_att(dropout(relu(features_att(key) + decoder_att(query)))): the score
\* of a key, a fixed function of the key, of the query and of the dropout
\* noise of the call
Score(key, query, noise) == (key * key + 2 * query + key * noise + noise) % 3

\* a softmax that gives a masked-out key the weight of score 0
ExpFloor(score) == IF score = NegInf THEN 1 ELSE 2 ^ score

\* exp of a score, up to the factor softmax divides out; exp(-inf) = 0
Exp(score) == IF score = NegInf THEN 0 ELSE 2 ^ score

\* Attention.forward for one sample: alpha[k] is the fraction num / den and
\* attention_weighted_encoding the fraction num / den of the weighted sum of
\* the raw keys.  den = 0 stands for NaN: softmax of a row that is -inf
\* everywhere is 0 / 0, the score of a NaN key is NaN, and a NaN key makes
\* the weighted sum NaN whatever its weight.  mask is the mask argument,
\* has_mask tells whether it was given.
Attention_forward(image_features, decoder_hidden, has_mask, mask, noise) ==
    LET n == Len0(image_features)
        att == [k \in DOMAIN image_features |->
                    IF has_mask /\ ~mask[k] THEN NegInf
                    ELSE Score(image_features[k], decoder_hidden, noise)]
        nan_score == \E k \in DOMAIN image_features :
                        image_features[k] = NaN /\ ~(has_mask /\ ~mask[k])
        e == [k \in DOMAIN image_features |-> Exp(att[k])]
        den == IF nan_score THEN 0 ELSE Sum0(e, n)
        nan_key == \E k \in DOMAIN image_features : image_features[k] = NaN
    IN  [alpha |-> [k \in DOMAIN image_features |->
                        [num |-> IF den = 0 THEN 0 ELSE e[k], den |-> den]],
         attention_weighted_encoding |->
            IF den = 0 \/ nan_key THEN [num |-> 0, den |-> 0]
            ELSE [num |-> Sum0([k \in DOMAIN image_features |-> image_features[k] * e[k]], n),
                  den |-> den]]

\* ---------------------------------------------- the graphs of a forward call
\* the augmentation codes a decoder is configured with: the six the builder
\* knows and one it does not
DecoderAugmentations == 0 .. 6

\* the constructor arguments that reach the graphs: cgat_k_steps and
\* cgat_update_rel keep their defaults; ContextGAT gets both kinds of
\* information (the default) or none, and a decoder without augmentation
\* may also get one of the two
DecoderArgs ==
    {a \in [augmentation : DecoderAugmentations,
            cgat_obj_info : BOOLEAN, cgat_rel_info : BOOLEAN,
            cgat_k_steps : {1}, cgat_update_rel : {TRUE}] :
        a.cgat_obj_info = a.cgat_rel_info \/ a.augmentation = 0}

\* x[:n]
FirstRows(x, n) == [i \in 1 .. n |-> x[i]]

\* h1 of timestep t, the hidden state of the top-down cell: it differs from
\* row to row and from timestep to timestep
HiddenState(t, n) == [b \in 1 .. n |-> (b + t) % 2]

\* A forward call seen from its graphs.  object_features_in holds the
\* caller's five scene graph tensors and caption_lengths_in the caption
\* lengths, both already in the order of sort_ind: the first sample is decoded
\* for two timesteps, a second one for one.  frame holds the constructor
\* arguments, then self and the locals.
GraphInit ==
    /\ method = "teacher_forcing"
    /\ training \in BOOLEAN
    /\ image_features_in = <<>>
    /\ object_features_in \in SceneBatches
    /\ encoded_captions_in = <<>>
    /\ caption_lengths_in = [b \in 1 .. Len(object_features_in.o) |-> 4 - b]
    /\ seed = 0
    /\ pc = "new"
    /\ frame \in [args : DecoderArgs]
    /\ ret = <<>>

\* cascade_sg_first_contextGAT_Decoder.__init__: stores the augmentation
\* code as given and constructs its ContextGAT
decoder_init ==
    /\ pc = "new"
    /\ LET a == frame.args
           cg == ContextGAT_init([use_obj_info |-> a.cgat_obj_info,
                                  use_rel_info |-> a.cgat_rel_info,
                                  k_update_steps |-> a.cgat_k_steps,
                                  update_relations |-> a.cgat_update_rel])
       IN  /\ frame' = [self |-> [augmentation |-> a.augmentation, context_gat |-> cg]]
           /\ pc' = IF cg.raised = "none" THEN "constructed" ELSE cg.raised
    /\ UNCHANGED <<inputs, ret>>

\* a call that passes self.augmentation in either mode
CallAugmentationAlways(self, is_training) == self.augmentation

\* the augmentation argument of the builder call: self.augmentation under
\* self.training, the literal 0 otherwise
CallAugmentation(self, is_training) == IF is_training THEN self.augmentation ELSE 0

\* "initialize the graphs": the builder is called with self.augmentation in
\* training mode and with code 0 otherwise; g, object_features, object_mask
\* are rebound to what it returns
initialize_graphs ==
    /\ pc = "constructed"
    /\ LET in == object_features_in
           code == CallAugmentation(frame.self, training)
       IN  \E res \in create_batched_graphs_augmented(in.o, in.om, in.r, in.rm, in.pairs, code) :
            /\ frame' = [self |-> frame.self,
                         call |-> [augmentation |-> code],
                         g |-> res.graphs,
                         object_features |-> res.o,
                         object_mask |-> res.om,
                         decode_lengths |-> DecodeLengths(caption_lengths_in),
                         t |-> 0]
            /\ pc' = IF res.raised = "none" THEN "graphs" ELSE res.raised
    /\ UNCHANGED <<inputs, ret>>

\* a batch that shares its storage with the graphs it was made of
dgl_batch_shared(g, sub_g) ==
    [b \in 1 .. Len(g) |-> IF b <= Len(sub_g) THEN sub_g[b] ELSE g[b]]

\* the list g after a timestep worked on sub_g = dgl.batch(g[:batch_size_t]):
\* dgl.batch builds a new graph with its own feature storage, so what
\* ContextGAT sets on sub_g does not reach the graphs of the list
dgl_batch_source(g, sub_g) == g

\* the graph statements of one timestep: ContextGAT on the graphs of the
\* active prefix, the reconciliation with the object tensor, and
\* cascade1_attention over the reconciled objects under the object mask
cascade_graph_step ==
    /\ pc \in {"graphs", "cascade"}
    /\ frame.t < NumSteps(frame.decode_lengths)
    /\ LET batch_size_t == BatchSizeT(frame.decode_lengths, frame.t)
           h1 == HiddenState(frame.t, batch_size_t)
           gat == ContextGAT_forward(frame.self.context_gat, h1, FirstRows(frame.g, batch_size_t))
           of == FirstRows(frame.object_features, batch_size_t)
           om == FirstRows(frame.object_mask, batch_size_t)
           rec == IF gat.raised = "none" THEN Reconcile(of, om, gat.io, gat.io_mask)
                  ELSE [raised |-> gat.raised, cgat_obj |-> <<>>, cgat_mask |-> <<>>]
           gwe == [b \in 1 .. Len(rec.cgat_obj) |->
                    Attention_forward(rec.cgat_obj[b], h1[b], TRUE, om[b],
                                      Noise(training, seed)).attention_weighted_encoding]
       IN  /\ frame' = [self |-> frame.self,
                        call |-> frame.call,
                        g |-> dgl_batch_source(frame.g, gat.graphs),
                        object_features |-> frame.object_features,
                        object_mask |-> frame.object_mask,
                        decode_lengths |-> frame.decode_lengths,
                        t |-> frame.t + 1,
                        step |-> [batch_size_t |-> batch_size_t, h1 |-> h1,
                                  sub_g |-> gat.graphs,
                                  cgat_out |-> gat.io, cgat_mask_out |-> gat.io_mask,
                                  of |-> of, om |-> om,
                                  cgat_obj |-> rec.cgat_obj, cgat_mask |-> rec.cgat_mask,
                                  graph_weighted_enc |-> gwe]]
           /\ pc' = IF rec.raised = "none" THEN "cascade" ELSE rec.raised
    /\ UNCHANGED <<inputs, ret>>

\* the loop over the timesteps is over: the call returns its tuple and its
\* locals are gone
graph_forward_return ==
    /\ pc = "cascade"
    /\ ~(frame.t < NumSteps(frame.decode_lengths))
    /\ ret' = <<[decode_lengths |-> frame.decode_lengths]>>
    /\ frame' = [self |-> frame.self, call |-> frame.call]
    /\ pc' = "returned"
    /\ UNCHANGED inputs

GraphNext ==
    \/ decoder_init
    \/ initialize_graphs
    \/ cascade_graph_step
    \/ graph_forward_return

GraphSpec == GraphInit /\ [][GraphNext]_vars

\* ----------------------------------------------------- properties: graphs
\* the graphs of the call were built
GraphsBuilt == pc \in {"graphs", "cascade"}

\* C11: at every timestep, in the reconciled object tensor handed to the
\* first attention, a slot that the object mask holds valid and ContextGAT's
\* derived mask holds not updated carries exactly the feature it had in the
\* object tensor before ContextGAT, a valid slot held updated carries
\* ContextGAT's output for that position, and so no valid slot whose feature
\* before ContextGAT is non-zero is zero.
C11_ValidSlotsKeepTheirFeature ==
    pc = "cascade" =>
        LET st == frame.step
        IN  \A b \in 1 .. st.batch_size_t : \A j \in ObjectSlots :
                st.om[b][j] =>
                    /\ ~st.cgat_mask[b][j] => st.cgat_obj[b][j] = st.of[b][j]
                    /\ st.cgat_mask[b][j] =>
                        /\ j \in DOMAIN st.cgat_out[b]
                        /\ st.cgat_obj[b][j] = st.cgat_out[b][j]
                    /\ st.of[b][j] # 0 => st.cgat_obj[b][j] # 0

\* a graph with an edge into node 1 and none into node 0: slot 0 is restored
\* from the object tensor, slot 1 carries ContextGAT's output
C11_Witness ==
    /\ pc = "cascade"
    /\ num_edges(frame.g[1]) > 0
    /\ frame.step.om[1][0] /\ ~frame.step.cgat_mask[1][0]
    /\ frame.step.cgat_out[1][0] = 0
    /\ frame.step.cgat_obj[1][0] = frame.step.of[1][0]
    /\ frame.step.of[1][0] # 0
    /\ frame.step.om[1][1] /\ frame.step.cgat_mask[1][1]
    /\ frame.step.cgat_obj[1][1] # frame.step.of[1][1]

\* C12: with augmentation code 0 the builder returns one graph per sample,
\* in batch order; the graph of sample b has om[b].sum() nodes and
\* rm[b].sum() edges, its k-th node carries the feature of the k-th masked-in
\* object slot, and its k-th edge carries the feature of the k-th masked-in
\* relation slot and joins the two objects of that slot's pair.  It is the
\* list create_batched_graphs builds.
C12_IdentityGraphFollowsMasks ==
    GraphsBuilt /\ frame.call.augmentation = 0 =>
        LET in == object_features_in
        IN  /\ Len(frame.g) = Len(in.o)
            /\ frame.g = create_batched_graphs_plain(in.o, in.om, in.r, in.rm, in.pairs)
            /\ \A b \in 1 .. Len(in.o) :
                /\ num_nodes(frame.g[b]) = MaskSum(in.om[b])
                /\ num_edges(frame.g[b]) = MaskSum(in.rm[b])
                /\ \A j \in ObjectSlots :
                    in.om[b][j] => frame.g[b].F_n[Rank(in.om[b], j)] = in.o[b][j]
                /\ \A j \in RelationSlots :
                    in.rm[b][j] =>
                        LET e == frame.g[b].edges[Rank(in.rm[b], j)]
                        IN  /\ e.F_e = in.r[b][j]
                            /\ e.src = in.pairs[b][j][1]
                            /\ e.dst = in.pairs[b][j][2]

\* an identity call on a batch of two whose second sample has two objects
\* and a relation from the second object to the first
C12_Witness ==
    /\ pc = "graphs" /\ frame.call.augmentation = 0
    /\ Len(frame.g) = 2
    /\ num_nodes(frame.g[1]) = 1 /\ num_edges(frame.g[1]) = 0
    /\ num_nodes(frame.g[2]) = 2 /\ num_edges(frame.g[2]) = 1
    /\ frame.g[2].edges[0].src = 1 /\ frame.g[2].edges[0].dst = 0
    /\ frame.g[2].F_n[0] # frame.g[2].F_n[1]

\* C13 (as claimed): under every augmentation code and for every sample, the
\* graph the builder returns has as many nodes as the object mask it returns
\* has true entries for that sample, and as many edges as the relation mask
\* has true entries.
C13_GraphSizeEqualsMaskCounts ==
    GraphsBuilt =>
        \A b \in 1 .. Len(frame.g) :
            /\ num_nodes(frame.g[b]) = MaskSum(frame.object_mask[b])
            /\ num_edges(frame.g[b]) = MaskSum(object_features_in.rm[b])

C16_GlobalNodeAddsTwoEdgesPerNode ==
    GraphsBuilt /\ frame.call.augmentation = 5 =>
        LET in == object_features_in
        IN  \A b \in 1 .. Len(frame.g) :
                LET id == SampleGraph(in.o[b], in.om[b], in.r[b], in.rm[b], in.pairs[b])
                    sg == frame.g[b]
                    n == MaskSum(in.om[b])
                    m == num_edges(id)
                    added == {k \in DOMAIN sg.edges : k >= m}
                IN  n < MaxObjects =>
                        /\ num_nodes(sg) = n + 1
                        /\ \A k \in 0 .. n - 1 : sg.F_n[k] = id.F_n[k]
                        /\ n > 0 => sg.F_n[n] * n = Sum0(id.F_n, n)
                        /\ n = 0 => sg.F_n[n] = NaN
                        /\ num_edges(sg) = m + 2 * n
                        /\ \A k \in 0 .. m - 1 : sg.edges[k] = id.edges[k]
                        /\ \A i \in 0 .. n - 1 :
                            /\ Cardinality({k \in added : sg.edges[k].src = i
                                                          /\ sg.edges[k].dst = n}) = 1
                            /\ Cardinality({k \in added : sg.edges[k].src = n
                                                          /\ sg.edges[k].dst = i}) = 1
                        /\ \A k \in added :
                            /\ m > 0 => sg.edges[k].F_e * m
                                         = Sum0([e \in DOMAIN id.edges |-> id.edges[e].F_e], m)
                            /\ m = 0 => sg.edges[k].F_e = NaN

\* two objects and two relations: the global node is node 2, its feature
\* lies between those of the two objects, and the four new edges follow the
\* two of the identity graph
C16_Witness ==
    /\ pc = "graphs" /\ frame.call.augmentation = 5
    /\ MaskSum(object_features_in.om[1]) = 2
    /\ MaskSum(object_features_in.rm[1]) = 2
    /\ num_nodes(frame.g[1]) = 3
    /\ num_edges(frame.g[1]) = 6
    /\ frame.g[1].F_n[0] < frame.g[1].F_n[2] /\ frame.g[1].F_n[2] < frame.g[1].F_n[1]
    /\ frame.g[1].edges[0].F_e < frame.g[1].edges[5].F_e
    /\ frame.g[1].edges[5].F_e < frame.g[1].edges[1].F_e
    /\ frame.g[1].edges[2].dst = 2 /\ frame.g[1].edges[5].src = 2

\* C17: with augmentation code 5 a sample whose object mask is already full
\* gets no global node: its graph is the identity graph and its rows of the
\* returned object tensor and mask are the caller's.  So under every code no
\* graph has more nodes than the object tensor has slots, ContextGAT's padded
\* output is never wider than the object tensor, and the copy into it never
\* fails.
C17_GraphsFitTheObjectTensor ==
    /\ pc # "RuntimeError"
    /\ GraphsBuilt =>
        LET in == object_features_in
        IN  \A b \in 1 .. Len(frame.g) :
                /\ num_nodes(frame.g[b]) <= MaxObjects
                /\ frame.call.augmentation = 5 /\ MaskSum(in.om[b]) = MaxObjects =>
                    /\ frame.g[b] = SampleGraph(in.o[b], in.om[b], in.r[b], in.rm[b],
                                                 in.pairs[b])
                    /\ frame.object_features[b] = in.o[b]
                    /\ frame.object_mask[b] = in.om[b]
    /\ pc = "cascade" =>
        \A b \in 1 .. frame.step.batch_size_t :
            /\ Len0(frame.step.cgat_out[b]) <= Len0(frame.step.of[b])
            /\ DOMAIN frame.step.cgat_obj[b] = DOMAIN frame.step.of[b]

\* a global-node call on a batch whose first sample gets the global node and
\* whose second sample is at capacity: ContextGAT's output fills the width of
\* the object tensor
C17_Witness ==
    /\ pc = "cascade" /\ frame.call.augmentation = 5
    /\ Len(frame.g) = 2
    /\ MaskSum(object_features_in.om[1]) = 1 /\ num_nodes(frame.g[1]) = 2
    /\ MaskSum(object_features_in.om[2]) = MaxObjects
    /\ num_nodes(frame.g[2]) = MaxObjects
    /\ frame.step.batch_size_t = 2
    /\ Len0(frame.step.cgat_out[2]) = MaxObjects
    /\ Len0(frame.step.cgat_obj[2]) = MaxObjects

\* some codes the builder's if / elif chain does not know
InvalidAugmentations == {0 - 1, 6, 7}

\* C18: a call of the builder with an augmentation code outside 0 .. 5
\* raises and does not return: no graph was built by then, and the caller's
\* object features and object mask are as they were passed.
C18_InvalidCodeRaisesBeforeBuilding ==
    LET in == object_features_in
    IN  /\ \A code \in InvalidAugmentations :
            \A res \in create_batched_graphs_augmented(in.o, in.om, in.r, in.rm,
                                                         in.pairs, code) :
                /\ res.raised = "ValueError"
                /\ res.graphs = <<>>
                /\ res.o = in.o /\ res.om = in.om
        /\ pc \in {"graphs", "cascade", "returned"} =>
            frame.call.augmentation \in AugmentationCodes
        /\ pc = "ValueError" =>
            /\ frame.call.augmentation \notin AugmentationCodes
            /\ frame.g = <<>>
            /\ frame.object_features = in.o
            /\ frame.object_mask = in.om
            /\ ret = <<>>

\* a training call of a decoder configured with code 6 on a sample with
\* objects and relations ended in the builder's ValueError
C18_Witness ==
    /\ pc = "ValueError" /\ training
    /\ frame.call.augmentation = 6
    /\ MaskSum(object_features_in.om[1]) = 2
    /\ MaskSum(object_features_in.rm[1]) = 1
    /\ frame.g = <<>>

\* the augmentation code the decoder is configured with
ConfiguredAugmentation ==
    IF pc = "new" THEN frame.args.augmentation ELSE frame.self.augmentation

\* C19 (as claimed): a decoder configured with an augmentation code outside
\* 0 .. 5 fails fast: its construction fails, or every forward call on it, in
\* training mode and in evaluation mode alike, ends in an error, so no call
\* builds graphs, decodes or returns.
C19_InvalidCodeFailsEveryCall ==
    ConfiguredAugmentation \notin AugmentationCodes =>
        pc \in {"new", "constructed", "AssertionError", "ValueError"}

\* C19 (amended): the constructor accepts any augmentation code; it fails
\* only on ContextGAT's own assertion.  A training-mode forward call of a
\* decoder configured with a code outside 0 .. 5 ends in the builder's
\* ValueError before any graph is built or timestep decoded, and returns
\* nothing.  An evaluation-mode forward call never passes the configured code:
\* it builds the identity graphs, never raises ValueError, and returns.
C19_InvalidCodeFailsTrainingCallsOnly ==
    /\ pc = "AssertionError" =>
        ~(frame.self.context_gat.use_obj_info \/ frame.self.context_gat.use_rel_info)
    /\ training /\ ConfiguredAugmentation \notin AugmentationCodes =>
        /\ pc \in {"new", "constructed", "AssertionError", "ValueError"}
        /\ ret = <<>>
    /\ ~training =>
        /\ pc # "ValueError"
        /\ pc \in {"graphs", "cascade", "returned"} => frame.call.augmentation = 0
        /\ GraphsBuilt =>
            LET in == object_features_in
            IN  frame.g = create_batched_graphs_plain(in.o, in.om, in.r, in.rm, in.pairs)

\* an evaluation-mode call of a decoder configured with code 6 returned
C19_Witness ==
    /\ pc = "returned" /\ ~training
    /\ frame.self.augmentation = 6
    /\ frame.call.augmentation = 0
    /\ ret # <<>>

\* the arguments of ContextGAT's constructor that its body reads
GatArgs ==
    [use_obj_info : BOOLEAN, use_rel_info : BOOLEAN,
     k_update_steps : 0 .. 2, update_relations : BOOLEAN]

\* C20: constructing a ContextGAT with use_obj_info and use_rel_info both
\* false fails in the constructor, whatever k_update_steps and
\* update_relations are; constructing it with at least one of the two true
\* succeeds.  So a decoder whose ContextGAT gets neither is never constructed,
\* and one whose ContextGAT gets at least one is.
C20_NeitherInfoFailsConstruction ==
    /\ \A a \in GatArgs :
            ContextGAT_init(a).raised =
                IF ~a.use_obj_info /\ ~a.use_rel_info THEN "AssertionError" ELSE "none"
    /\ pc # "new" =>
        LET cg == frame.self.context_gat
        IN  /\ ~cg.use_obj_info /\ ~cg.use_rel_info =>
                cg.raised = "AssertionError" /\ pc = "AssertionError"
            /\ cg.use_obj_info \/ cg.use_rel_info =>
                cg.raised = "none" /\ pc # "AssertionError"

\* the construction of a decoder whose ContextGAT gets neither kind of
\* information ended in the assertion
C20_Witness ==
    /\ pc = "AssertionError"
    /\ ~frame.self.context_gat.use_obj_info
    /\ ~frame.self.context_gat.use_rel_info
    /\ frame.self.context_gat.update_relations
    /\ ret = <<>>

\* C21 (as claimed): whatever the flags of a constructed ContextGAT, that is
\* with at least one of use_obj_info / use_rel_info true, its forward call on
\* graphs with at least one edge completes without error.
C21_EveryFlagCombinationRuns ==
    pc \notin {"new", "AssertionError"}
    /\ (frame.self.context_gat.use_obj_info \/ frame.self.context_gat.use_rel_info)
        => pc # "KeyError"

\* the number of edges of the graphs ContextGAT ran on at the last timestep
EdgesOfStep ==
    Sum0([k \in 0 .. frame.step.batch_size_t - 1 |-> num_edges(frame.g[k + 1])],
         frame.step.batch_size_t)

MaxKeys == 3        \* keys of a sample (100 object slots, 36 regions)

KeyValues == {0, 2, 5}

AttentionArgs ==
    [image_features : [0 .. MaxKeys - 1 -> KeyValues],
     decoder_hidden : 0 .. 1,
     mask : [0 .. MaxKeys - 1 -> BOOLEAN]]

AttentionInit ==
    /\ method = "Attention"
    /\ training \in BOOLEAN
    /\ seed \in (IF training THEN 1 .. 2 ELSE {0})
    /\ image_features_in = <<>>
    /\ object_features_in = <<>>
    /\ encoded_captions_in = <<>>
    /\ caption_lengths_in = <<>>
    /\ pc = "attention_call"
    /\ frame \in AttentionArgs
    /\ ret = <<>>

\* Attention.forward(image_features, decoder_hidden, mask)
attention_forward ==
    /\ pc = "attention_call"
    /\ ret' = <<Attention_forward(frame.image_features, frame.decoder_hidden,
                                  TRUE, frame.mask, seed)>>
    /\ pc' = "attention_returned"
    /\ UNCHANGED <<inputs, frame>>

AttentionNext == attention_forward

AttentionSpec == AttentionInit /\ [][AttentionNext]_vars

\* the valid key positions of the call
ValidKeys == {k \in DOMAIN frame.mask : frame.mask[k]}

\* C23: in an attention call with a mask in which the sample has a valid
\* key, every masked-out position gets the weight 0 and the weights of the
\* valid positions sum to 1; when exactly one position is valid, the weighted
\* encoding is the raw feature of that key, whatever the query, the dropout
\* noise and the features of the other keys.
C23_MaskedKeysGetNoWeight ==
    pc = "attention_returned" /\ ValidKeys # {} =>
        LET alpha == ret[1].alpha
            enc == ret[1].attention_weighted_encoding
            den == enc.den
            nums == [k \in DOMAIN alpha |-> IF frame.mask[k] THEN alpha[k].num ELSE 0]
        IN  /\ den > 0
            /\ \A k \in DOMAIN alpha : alpha[k].den = den
            /\ \A k \in DOMAIN alpha : ~frame.mask[k] => alpha[k].num = 0
            /\ \A k \in DOMAIN alpha : frame.mask[k] => alpha[k].num > 0
            /\ Sum0(nums, Len0(nums)) = den
            /\ \A k \in ValidKeys :
                ValidKeys = {k} => enc.num = frame.image_features[k] * den

\* only the middle key is valid; the other two carry other, non-zero
\* features, and the call ran with dropout
C23_Witness ==
    /\ pc = "attention_returned" /\ training
    /\ ValidKeys = {1}
    /\ frame.image_features[0] = 5 /\ frame.image_features[1] = 2
    /\ frame.image_features[2] = 5
    /\ ret[1].attention_weighted_encoding.num
            = 2 * ret[1].attention_weighted_encoding.den
    /\ ret[1].attention_weighted_encoding.den > 1

\* C24 (as claimed): an attention call in which a sample has no valid key
\* ends in an error instead of returning a weighted sum; so a timestep of the
\* decoder whose first attention meets a sample without a valid object does
\* not complete.
C24_AllMaskedAttentionIsGuarded ==
    pc = "cascade" =>
        \A b \in 1 .. frame.step.batch_size_t : MaskSum(frame.step.om[b]) > 0

\* the four recurrent states of the running call
RecurrentStates == <<frame.h1, frame.c1, frame.h2, frame.c2>>

BuiltAttributes == {"F_n", "edges", "nid", "eid"}

\* C26: the graphs of a forward call are built once, before the loop: from
\* then until the call returns the list g is the one the builder returned, no
\* timestep changes a stored F_n or F_e or leaves an attribute on a graph of
\* the list, and the ContextGAT output of every timestep is the one computed
\* from the built F_n / F_e of the first batch_size_t graphs.
C26_EveryTimestepStartsFromTheBuiltGraphs ==
    [][/\ pc' = "graphs" => pc = "constructed"
       /\ GraphsBuilt /\ pc' = "cascade" =>
            /\ frame'.g = frame.g
            /\ \A b \in 1 .. Len(frame'.g) : DOMAIN frame'.g[b] = BuiltAttributes
            /\ frame'.step.cgat_out =
                    ContextGAT_forward(frame.self.context_gat, frame'.step.h1,
                                       FirstRows(frame.g, frame'.step.batch_size_t)).io
            /\ \A b \in 1 .. frame'.step.batch_size_t :
                    /\ frame'.step.sub_g[b].F_n = frame.g[b].F_n
                    /\ frame'.step.sub_g[b].edges = frame.g[b].edges]_vars

\* the second timestep of a call whose first timestep left updated node
\* features on its batched graph: the stored graph still has the built ones
C26_Witness ==
    /\ pc = "cascade" /\ frame.t = 2
    /\ num_edges(frame.g[1]) > 0
    /\ frame.step.sub_g[1].F_n_t # frame.g[1].F_n
    /\ frame.step.sub_g[1].F_e_t # [k \in DOMAIN frame.g[1].edges |-> frame.g[1].edges[k].F_e]
    /\ DOMAIN frame.g[1] = BuiltAttributes

\* a ContextGAT that sends both kinds of information
BothInfoGats ==
    {ContextGAT_init(a) : a \in {x \in GatArgs : x.use_obj_info /\ x.use_rel_info}}

\* the working copies a graph starts its rounds with
StartOfRounds(graph) ==
    [F_n_t |-> graph.F_n, F_e_t |-> [k \in DOMAIN graph.edges |-> graph.edges[k].F_e]]

\* C27: on a graph with at least one edge ContextGAT runs exactly
\* k_update_steps rounds, each one reading the node and edge features the
\* round before it produced (none: the built features are the output; one: a
\* round on the built features; two: a round on the result of the first).
\* The edge features are replaced in a round only when update_relations is
\* set; when it is not, F_e_t is the built F_e after any number of rounds.
C27_RoundsFeedTheNextRound ==
    GraphsBuilt =>
        \A b \in 1 .. Len(frame.g) : \A self \in BothInfoGats : \A h \in 0 .. 1 :
            num_edges(frame.g[b]) > 0 =>
                LET edges == frame.g[b].edges
                    st0 == StartOfRounds(frame.g[b])
                    st1 == UpdateAll(self, h, st0, edges)
                    st2 == UpdateAll(self, h, st1, edges)
                    gat == ContextGAT_forward(self, <<h>>, <<frame.g[b]>>)
                    last == CASE self.k_update_steps = 0 -> st0
                              [] self.k_update_steps = 1 -> st1
                              [] self.k_update_steps = 2 -> st2
                IN  /\ gat.raised = "none"
                    /\ gat.io[1] = last.F_n_t
                    /\ gat.graphs[1].F_n_t = last.F_n_t
                    /\ gat.graphs[1].F_e_t = last.F_e_t
                    /\ ~self.update_relations =>
                        /\ st1.F_e_t = st0.F_e_t /\ st2.F_e_t = st0.F_e_t
                        /\ gat.graphs[1].F_e_t = st0.F_e_t
                    /\ self.update_relations =>
                        \A k \in DOMAIN edges :
                            (st2.F_e_t[k] # NaN /\ st1.F_e_t[k] # NaN) =>
                                st2.F_e_t[k] = phi_edge(st1.F_n_t[edges[k].src],
                                                        st1.F_n_t[edges[k].dst], st1.F_e_t[k])

\* a timestep ran its one round on a graph with an edge, and on that graph a
\* second round changes the node features again, while the edge features
\* change with update_relations and stay the built ones without it
C27_Witness ==
    /\ pc = "cascade"
    /\ num_edges(frame.g[1]) > 0
    /\ LET edges == frame.g[1].edges
           st0 == StartOfRounds(frame.g[1])
           h == frame.step.h1[1]
           two == ContextGAT_init([use_obj_info |-> TRUE, use_rel_info |-> TRUE,
                                   k_update_steps |-> 2, update_relations |-> TRUE])
           keep == ContextGAT_init([use_obj_info |-> TRUE, use_rel_info |-> TRUE,
                                    k_update_steps |-> 2, update_relations |-> FALSE])
           st1 == UpdateAll(two, h, st0, edges)
           st2 == UpdateAll(two, h, st1, edges)
       IN  /\ frame.step.sub_g[1].F_n_t = st1.F_n_t
           /\ st1.F_n_t # st0.F_n_t /\ st2.F_n_t # st1.F_n_t
           /\ st1.F_e_t # st0.F_e_t /\ st2.F_e_t # st1.F_e_t
           /\ ContextGAT_forward(two, <<h>>, <<frame.g[1]>>).io[1] = st2.F_n_t
           /\ ContextGAT_forward(keep, <<h>>, <<frame.g[1]>>).graphs[1].F_e_t = st0.F_e_t

\* ------------------------------------------- the mask ContextGAT derives
\* the most nodes of the first graph of the batch
MaxRows == 2

\* node feature vectors: two components of either sign
FeatureRows == [1 .. 2 -> (0 - 1) .. 1]

\* self.relu applied to a feature vector
relu(row) == [c \in DOMAIN row |-> IF row[c] > 0 THEN row[c] ELSE 0]

\* row.sum(dim=-1)
RowSum(row) == row[1] + row[2]

\* the node features ContextGAT splits per graph: with edges in the batch
\* they are F_i_tplus1, the output of a ReLU (zero for a node without
\* incoming edges); without edges they are the built F_n as they are
OutputRows(path, F) ==
    [b \in 1 .. Len(F) |->
        [k \in DOMAIN F[b] |-> IF path = "message_passing" THEN relu(F[b][k]) ELSE F[b][k]]]

\* pad_sequence(io, batch_first=True) on feature vectors
PadRows(io) ==
    LET width == Max({Len0(io[b]) : b \in 1 .. Len(io)})
    IN  [b \in 1 .. Len(io) |->
            [k \in 0 .. width - 1 |-> IF k < Len0(io[b]) THEN io[b][k] ELSE [c \in 1 .. 2 |-> 0]]]

\* a mask that holds a row real when one of its components is not zero
IoMaskAnyComponent(io) ==
    [b \in 1 .. Len(io) |-> [k \in DOMAIN io[b] |-> \E c \in 1 .. 2 : io[b][k][c] # 0]]

\* io_mask = io.sum(dim=-1) != 0
IoMask(io) ==
    [b \in 1 .. Len(io) |-> [k \in DOMAIN io[b] |-> RowSum(io[b][k]) # 0]]

\* a batch of two graphs: the first with up to MaxRows nodes, the second
\* with one
MaskBatches ==
    UNION {{<<F1, F2>> : F1 \in [0 .. n - 1 -> FeatureRows], F2 \in [0 .. 0 -> FeatureRows]}
           : n \in 0 .. MaxRows}

MaskInit ==
    /\ method = "ContextGAT"
    /\ training = FALSE
    /\ seed = 0
    /\ image_features_in = <<>>
    /\ object_features_in \in MaskBatches
    /\ encoded_captions_in = <<>>
    /\ caption_lengths_in = <<>>
    /\ pc = "output_call"
    /\ frame \in [path : {"message_passing", "pass_through"}]
    /\ ret = <<>>

\* the last statements of ContextGAT.forward: split, pad, derive the mask
contextgat_output ==
    /\ pc = "output_call"
    /\ LET io == PadRows(OutputRows(frame.path, object_features_in))
       IN  ret' = <<[io |-> io, io_mask |-> IoMask(io)]>>
    /\ pc' = "output_returned"
    /\ UNCHANGED <<inputs, frame>>

MaskNext == contextgat_output

MaskSpec == MaskInit /\ [][MaskNext]_vars

\* row k of sample b is a row of the graph, not one pad_sequence added
RealRow(b, k) == k < Len0(object_features_in[b])

C29_SlotHoldsTheRowOfItsOwnNode ==
    pc = "cascade" =>
        \A b \in 1 .. frame.step.batch_size_t : \A j \in DOMAIN frame.step.om[b] :
            frame.step.om[b][j] /\ frame.step.cgat_mask[b][j] =>
                /\ j \in DOMAIN frame.g[b].nid
                /\ frame.step.cgat_obj[b][j] = frame.step.cgat_out[b][j]
                /\ frame.g[b].nid[j] = j

\* ------------------------------------------------ the public forward call
\* a dispatch with the two branches exchanged
Decoder_forward_exchanged(teacher_force) ==
    IF teacher_force THEN "no_teacher_force" ELSE "teacher_forcing"

\* cascade_sg_first_contextGAT_Decoder.forward: the decode path it calls,
\* chosen by self.teacher_force alone
Decoder_forward(teacher_force) ==
    IF teacher_force THEN "teacher_forcing" ELSE "no_teacher_force"

\* C30 as stated: each of the three decode paths is selected by forward
\* under some configuration, so whichever path runs, forward runs it for
\* some value of the configuration.
C30_EveryPolicyIsSelectable ==
    Running => \E teacher_force \in BOOLEAN : Decoder_forward(teacher_force) = method

\* C30, amended: forward runs the teacher-forced path when the decoder is
\* configured with teacher_force and the free-running path otherwise; these
\* are the only two paths it runs, and the scheduled-sampling path runs only
\* when _schedule_sampleing is called itself.
C30_ForwardSelectsTwoPolicies ==
    Running =>
        /\ {Decoder_forward(teacher_force) : teacher_force \in BOOLEAN}
                = Methods \ {"schedule_sampleing"}
        /\ method = Decoder_forward(TRUE) => FedGroundTruth(frame)
        /\ method = Decoder_forward(FALSE) =>
                \A i \in 1 .. BatchSizeOf(frame) : \A k \in 1 .. Len(frame.fed[i]) :
                    frame.fed[i][k] =
                        IF k = 1 THEN embedding(word_map.start)
                        ELSE embedding(ArgMax(frame.predictions[i][k - 2]))
        /\ method = "schedule_sampleing" =>
                \A teacher_force \in BOOLEAN : Decoder_forward(teacher_force) # method

\* a call of the scheduled-sampling path returned: no value of teacher_force
\* makes forward run it, while the path forward runs without teacher_force
\* would have fed the sample its own prediction
C30_Witness ==
    /\ pc = "returned" /\ method = "schedule_sampleing"
    /\ Decoder_forward(TRUE) # method /\ Decoder_forward(FALSE) # method
    /\ Len(frame.fed[1]) = 2
    /\ Run(Decoder_forward(FALSE), Args, frame.sort_ind).fed[1][2] # frame.fed[1][2]
====
